---- MODULE Spec2Model ----
(***************************************************************************)
(* A model of the tick-to-bar pipeline of process_1m_data.py:              *)
(*   _find_symbol_files_ -> _construct_data_ -> _get_symbol_as_dataframe_  *)
(*   -> _get_resampled_data -> append_or_create_csv, and the batch loop of *)
(*   __main__.                                                             *)
(*                                                                         *)
(* Tables (pandas DataFrames) are records [cols, rows]; rows is a sequence *)
(* of [ix, v] where ix is the index entry and v maps each column to a      *)
(* value.  Timestamps are integers (instants); prices are integers in      *)
(* units of 10^-_symbol_digits.  The library calls the source makes        *)
(* (concat, merge, fillna, dropna, resample, read_csv, to_csv,             *)
(* to_datetime, duplicated) are modelled by what pandas 1.x does.          *)
(***************************************************************************)
EXTENDS Integers, Sequences, FiniteSets, TLC

\* ------------------------------------------------------------------ bounds
\* bar timestamps offered to append_or_create_csv are 0..MaxTs
MaxTs == 1
\* number of append_or_create_csv calls on the one persisted file
MaxCalls == 2

\* ------------------------------------------------------------------- state
VARIABLES
  indexTz,    \* whether the frames' DatetimeIndex is tz-aware (.csv ticks) or naive
  file,       \* the persisted CSV file
  prev,       \* the file before the last call
  last,       \* the frame the last call was given
  lastOp,     \* "none", "create" or "append"
  committed,  \* timestamp -> the row values first committed for it
  calls,
  tick_dir,   \* the tick files of the symbol, in the order glob lists them
  extension,  \* _extension: "csv" or "gz"
  margs,      \* the arguments of the call
  mres,       \* what the call gave: status "idle" before it
  rin,        \* the call: table, precision, policy, calc_spread
  rout,       \* its result: status "idle" before the call, then "ok" or "error"
  dirs,       \* ticker -> the listing of its tick directory
  pc,         \* "get", "filter", "check", "write_min", "write_hour", "done", "raised"
  ai,         \* position in Assets of the ticker being processed
  main_df,    \* the _df of the loop body
  store,      \* ticker -> the minute and the hour bar file
  wpc,        \* writer -> its position in append_or_create_csv
  wdf,        \* writer -> the _df its call was given
  old_data,   \* writer -> the old_data its call read
  overlap     \* whether a call began while the other call was under way

avars == <<indexTz, file, prev, last, lastOp, committed, calls>>
mvars == <<tick_dir, extension, margs, mres>>
rvars == <<rin, rout>>
mainvars == <<dirs, pc, ai, main_df, store>>
wvars == <<wpc, wdf, old_data, overlap>>
vars == <<avars, mvars, rvars, mainvars, wvars>>

\* ------------------------------------------------------------ value domain
\* the missing value of a float column (numpy.nan)
NaN == -1
\* the text of a missing value in a CSV file (to_csv na_rep = '')
EmptyCell == -2

Max(a, b) == IF a >= b THEN a ELSE b

RECURSIVE SortedSeq(_)
\* the elements of a finite set of integers, ascending
SortedSeq(S) ==
  IF S = {} THEN <<>>
  ELSE LET m == CHOOSE x \in S : \A y \in S : x <= y
       IN  <<m>> \o SortedSeq(S \ {m})

RECURSIVE SelectRows(_, _)
\* the rows of a sequence at which the boolean mask holds, in order
SelectRows(rows, mask) ==
  IF rows = <<>> THEN <<>>
  ELSE LET n == Len(rows)
           init == SelectRows(SubSeq(rows, 1, n - 1), SubSeq(mask, 1, n - 1))
       IN  IF mask[n] THEN Append(init, rows[n]) ELSE init

\* ===================================================================
\* SeriesAppender: append_or_create_csv
\* ===================================================================

\* the columns _get_resampled_data produces, with and without _calc_spread
OhlcCols == {"open", "high", "low", "close"}
BarColsSpread == OhlcCols \cup {"spread", "volume"}
BarColsNoSpread == OhlcCols \cup {"volume"}
ColSets == {BarColsSpread, BarColsNoSpread}

\* an index entry held in memory: a Timestamp (kind "ts", tz-aware iff utc)
\* or the text read_csv left in the index (kind "str", "+00:00" suffix iff utc)
TsEntry(t, utc) == [kind |-> "ts", t |-> t, utc |-> utc]
StrEntry(t, utc) == [kind |-> "str", t |-> t, utc |-> utc]

\* DataFrame.to_csv: the index is written as text, a tz-aware Timestamp with
\* its "+00:00" offset, a naive one without; NaN is written as the empty field
to_csv(df) ==
  [exists |-> TRUE,
   cols   |-> df.cols,
   rows   |-> [i \in 1..Len(df.rows) |->
                [ts |-> [t |-> df.rows[i].ix.t, utc |-> df.rows[i].ix.utc],
                 v  |-> [c \in df.cols |->
                          IF df.rows[i].v[c] = NaN THEN EmptyCell
                          ELSE df.rows[i].v[c]]]]]

\* pd.read_csv(path, index_col="timestamp"): the index stays text (no
\* parse_dates), the empty field is read as NaN
read_csv(f) ==
  [cols |-> f.cols,
   rows |-> [i \in 1..Len(f.rows) |->
              [ix |-> StrEntry(f.rows[i].ts.t, f.rows[i].ts.utc),
               v  |-> [c \in f.cols |->
                        IF f.rows[i].v[c] = EmptyCell THEN NaN
                        ELSE f.rows[i].v[c]]]]]

\* pd.concat([old, new], join="inner"): rows of old then rows of new, on the
\* intersection of the two column sets
concat_inner(old, new) ==
  LET cols == old.cols \cap new.cols
      cut(r) == [ix |-> r.ix, v |-> [c \in cols |-> r.v[c]]]
  IN  [cols |-> cols,
       rows |-> [i \in 1..Len(old.rows) |-> cut(old.rows[i])]
                \o [i \in 1..Len(new.rows) |-> cut(new.rows[i])]]

\* pd.to_datetime(index, utc=True): text and Timestamps alike become UTC
\* Timestamps; text without an offset and naive Timestamps are taken as UTC
to_datetime_utc(df) ==
  [cols |-> df.cols,
   rows |-> [i \in 1..Len(df.rows) |->
              [ix |-> TsEntry(df.rows[i].ix.t, TRUE), v |-> df.rows[i].v]]]

\* index.duplicated(keep='first'): TRUE at every entry seen earlier
duplicated_first(rows) ==
  [i \in 1..Len(rows) |-> \E j \in 1..(i - 1) : rows[j].ix = rows[i].ix]

\* index.duplicated(keep='last'): TRUE at every entry seen again later
duplicated_last(rows) ==
  [i \in 1..Len(rows) |-> \E j \in (i + 1)..Len(rows) : rows[j].ix = rows[i].ix]

\* no entry is reported as a duplicate
duplicated_none(rows) == [i \in 1..Len(rows) |-> FALSE]

\* the rows of df at which dup is FALSE
DropMarked(df, dup) ==
  [cols |-> df.cols,
   rows |-> SelectRows(df.rows, [i \in 1..Len(df.rows) |-> ~dup[i]])]

\* the later occurrence of a timestamp is kept
drop_duplicated_keep_last(df) == DropMarked(df, duplicated_last(df.rows))

\* nothing is dropped
drop_duplicated_keep_all(df) == DropMarked(df, duplicated_none(df.rows))

\* combined_data[~combined_data.index.duplicated(keep='first')]
drop_duplicated(df) == DropMarked(df, duplicated_first(df.rows))

NoFile == [exists |-> FALSE, cols |-> {}, rows |-> <<>>]

\* the file is rewritten with the new frame alone
append_overwrite(df, f) == to_csv(df)

\* append_or_create_csv(_df, csv_path_name): the content of the file after the
\* call, f being its content before
append_or_create_csv(df, f) ==
  IF f.exists
  THEN to_csv(drop_duplicated(to_datetime_utc(concat_inner(read_csv(f), df))))
  ELSE to_csv(df)

\* -------------------------------------------------- the persisted series
\* what a reader of the file gets: pd.read_csv with the index parsed to UTC
\* instants; timestamps in file order, row values by column
Series(f) ==
  LET df == to_datetime_utc(read_csv(f))
  IN  [cols |-> df.cols,
       rows |-> [i \in 1..Len(df.rows) |-> [t |-> df.rows[i].ix.t, v |-> df.rows[i].v]]]

SeriesTs(f) == {f.rows[i].ts.t : i \in 1..Len(f.rows)}
RowAt(f, t) == LET s == Series(f)
                   i == CHOOSE k \in 1..Len(s.rows) : s.rows[k].t = t
               IN  s.rows[i].v

\* ------------------------------------------------------------ bar frames
Timestamps == 0..MaxTs
\* contents of one bar: two traded buckets with different prices, and the
\* empty bucket the identity policy keeps (missing OHLC/spread, volume 0)
Versions == {"a", "b", "gap"}
BarVals(ver) ==
  CASE ver = "a"   -> [open |-> 3, high |-> 5, low |-> 2, close |-> 4, spread |-> 1, volume |-> 2]
    [] ver = "b"   -> [open |-> 4, high |-> 4, low |-> 4, close |-> 4, spread |-> 2, volume |-> 1]
    [] ver = "gap" -> [open |-> NaN, high |-> NaN, low |-> NaN, close |-> NaN, spread |-> NaN, volume |-> 0]

\* a frame of bars as _get_resampled_data returns it: unique ascending
\* DatetimeIndex (tz-aware or naive), the columns of cols
BarFrame(S, ver, cols, utc) ==
  LET ts == SortedSeq(S)
  IN  [cols |-> cols,
       rows |-> [i \in 1..Len(ts) |->
                  [ix |-> TsEntry(ts[i], utc), v |-> [c \in cols |-> BarVals(ver)[c]]]]]



EmptyFrame == [cols |-> {}, rows |-> <<>>]

AInit ==
  /\ indexTz \in BOOLEAN
  /\ file = NoFile
  /\ prev = NoFile
  /\ last = EmptyFrame
  /\ lastOp = "none"
  /\ committed = <<>>
  /\ calls = 0

\* one call of append_or_create_csv on the file
AppendOrCreate(df) ==
  /\ calls < MaxCalls
  /\ calls' = calls + 1
  /\ file' = append_or_create_csv(df, file)
  /\ prev' = file
  /\ last' = df
  /\ lastOp' = IF file.exists THEN "append" ELSE "create"
  /\ committed' =
       LET known == DOMAIN committed
           new == {df.rows[i].ix.t : i \in 1..Len(df.rows)} \ known
       IN  [t \in known \cup new |->
             IF t \in known THEN committed[t]
             ELSE LET i == CHOOSE k \in 1..Len(df.rows) : df.rows[k].ix.t = t
                  IN  df.rows[i].v]
  /\ UNCHANGED <<indexTz, mvars, rvars, mainvars, wvars>>

ANext ==
  \E S \in SUBSET Timestamps, ver \in Versions, cols \in ColSets :
    AppendOrCreate(BarFrame(S, ver, cols, indexTz))

\* ===================================================================
\* TickFileLocator, TickFileParser, TickMerger
\* ===================================================================
\* tick timestamps are 0..MaxTick
MaxTick == 3

Ticks == 0..MaxTick
\* the hour chunks of the tick files, named as in the file names
Hours == <<"00", "01">>
TheDate == "2021-05-21"
\* the ticks an hour file can hold: the first half of Ticks is hour "00"
HourTicks(h) ==
  LET split == (MaxTick + 1) \div 2
  IN  IF h = "00" THEN {t \in Ticks : t < split} ELSE {t \in Ticks : t >= split}

\* price and size of the quote a side published at t; every record of a side
\* has its own values, ask above bid
PriceOf(side, t) == IF side = "ASK" THEN 104 + 2 * t ELSE 100 + 3 * t
SizeOf(side, t) == IF side = "ASK" THEN 10 + t ELSE 20 + t

\* one tick file <symbol>-<side>-<date>-<hour><extension> holding the quotes at S
TickFile(side, h, S) ==
  LET ts == SortedSeq(S)
  IN  [side |-> side, date |-> TheDate, hour |-> h,
       lines |-> [i \in 1..Len(ts) |->
                   [t |-> ts[i], price |-> PriceOf(side, ts[i]), size |-> SizeOf(side, ts[i])]]]

TheMonth == "2021-05-"
\* `s in filename.name`, on the parts a file name is made of: its side, its
\* date (and the month the date starts with) and its hour
NameContains(f, s) == s = "" \/ s = f.side \/ s = f.date \/ s = TheMonth \/ s = f.hour

\* [f for f in fs if s in f.name], order kept
FilesContaining(fs, s) == SelectRows(fs, [i \in 1..Len(fs) |-> NameContains(fs[i], s)])

\* DWX_TICK_DATA_IO._find_symbol_files_: listing is Path.glob's result for
\* the symbol; found = FALSE models (None, None)
find_symbol_files(listing, date, hour) ==
  LET fs == IF date = "" THEN listing
            ELSE IF hour = "" THEN FilesContaining(listing, date)
            ELSE FilesContaining(FilesContaining(listing, date), hour)
  IN  IF Len(fs) > 0
      THEN [found |-> TRUE,
            bid |-> FilesContaining(fs, "BID"),
            ask |-> FilesContaining(fs, "ASK")]
      ELSE [found |-> FALSE, bid |-> <<>>, ask |-> <<>>]

SideCols(side) == IF side = "BID" THEN {"bid_price", "bid_size"} ELSE {"ask_price", "ask_size"}
SideRow(side, l) ==
  [ix |-> l.t,
   v  |-> IF side = "BID" THEN [bid_price |-> l.price, bid_size |-> l.size]
          ELSE [ask_price |-> l.price, ask_size |-> l.size]]

\* DWX_TICK_DATA_IO._construct_data_: ok = FALSE models a raised exception.
\* A .gz file without data lines gives a frame without columns, and naming
\* its three columns raises; a .csv file always has its header line.
construct_data(f, ext) ==
  IF ext = "gz" /\ Len(f.lines) = 0 THEN [ok |-> FALSE, cols |-> {}, rows |-> <<>>]
  ELSE IF ext \in {"gz", "csv"}
  THEN [ok |-> TRUE, cols |-> SideCols(f.side),
        rows |-> [i \in 1..Len(f.lines) |-> SideRow(f.side, f.lines[i])]]
  ELSE [ok |-> FALSE, cols |-> {}, rows |-> <<>>]

RECURSIVE ConcatRows(_)
\* pd.concat(frames, axis=0): the rows of the frames one after the other
ConcatRows(frames) ==
  IF frames = <<>> THEN <<>>
  ELSE frames[1].rows \o ConcatRows(Tail(frames))

\* the _bids / _asks local of _get_symbol_as_dataframe_: bound = FALSE when
\* the side has no file (the assignment is skipped), ok = FALSE when a file
\* fails to parse
side_frame(files, ext, side) ==
  LET frames == [i \in 1..Len(files) |-> construct_data(files[i], ext)]
  IN  [bound |-> Len(files) # 0,
       ok    |-> \A i \in 1..Len(files) : frames[i].ok,
       cols  |-> SideCols(side),
       rows  |-> ConcatRows(frames)]

IndexOf(rows) == [i \in 1..Len(rows) |-> rows[i].ix]
IndexSet(rows) == {rows[i].ix : i \in 1..Len(rows)}

\* the keys of an outer join in the order of the left frame, the keys only
\* the right frame has after them
outer_keys_unsorted(left, right) ==
  IndexOf(left) \o IndexOf(SelectRows(right, [i \in 1..Len(right) |-> right[i].ix \notin IndexSet(left)]))

\* Index.join(how='outer') of two indexes without repeated keys: an index
\* equal to the other, or joined with an empty one, is returned as it is;
\* otherwise the result is the sorted union
outer_keys(left, right) ==
  IF Len(right) = 0 \/ IndexOf(left) = IndexOf(right) THEN IndexOf(left)
  ELSE IF Len(left) = 0 THEN IndexOf(right)
  ELSE SortedSeq(IndexSet(left) \cup IndexSet(right))

\* the value of column c at key k in rows, NaN when rows has no such key
Lookup(rows, k, c) ==
  IF \E i \in 1..Len(rows) : rows[i].ix = k
  THEN rows[CHOOSE i \in 1..Len(rows) : rows[i].ix = k].v[c]
  ELSE NaN

\* left.merge(right, how='outer', left_index=True, right_index=True)
merge_outer(left, right) ==
  LET keys == outer_keys(left.rows, right.rows)
      cols == left.cols \cup right.cols
  IN  [cols |-> cols,
       rows |-> [i \in 1..Len(keys) |->
                  [ix |-> keys[i],
                   v  |-> [c \in cols |->
                            IF c \in left.cols THEN Lookup(left.rows, keys[i], c)
                            ELSE Lookup(right.rows, keys[i], c)]]]]

RECURSIVE FfillRows(_, _)
\* rows with each missing value replaced by the column's value in the row
\* before, after that row was filled itself
FfillRows(rows, cols) ==
  IF Len(rows) <= 1 THEN rows
  ELSE LET n == Len(rows)
           init == FfillRows(SubSeq(rows, 1, n - 1), cols)
           before == init[n - 1]
       IN  Append(init,
                  [ix |-> rows[n].ix,
                   v  |-> [c \in cols |->
                            IF rows[n].v[c] = NaN THEN before.v[c] ELSE rows[n].v[c]]])

\* DataFrame.fillna(method='ffill')
ffill(df) == [df EXCEPT !.rows = FfillRows(df.rows, df.cols)]

\* no row is dropped
dropna_none(df) == df

\* DataFrame.dropna(): the rows without any missing value
dropna(df) ==
  [df EXCEPT !.rows = SelectRows(df.rows,
     [i \in 1..Len(df.rows) |-> \A c \in df.cols : df.rows[i].v[c] # NaN])]

\* DataFrame.reindex(cols, axis=1): the columns asked for, a column the frame
\* does not have is all missing
reindex_columns(df, cols) ==
  [df EXCEPT !.cols = cols,
             !.rows = [i \in 1..Len(df.rows) |->
                        [ix |-> df.rows[i].ix,
                         v  |-> [c \in cols |->
                                  IF c \in df.cols THEN df.rows[i].v[c] ELSE NaN]]]]

\* DWX_TICK_DATA_IO._integrity_check_: TRUE when it returns; it groups the
\* spread column by the hour of a DatetimeIndex and raises without them
integrity_check(df) == df.ixkind = "datetime" /\ "spread" \in df.cols

MergeCols == {"ask_price", "ask_size", "bid_price", "bid_size"}
NoTable == [cols |-> {}, rows |-> <<>>, ixkind |-> "raw"]
ReturnsNone == [status |-> "None", table |-> NoTable]
Raises == [status |-> "error", table |-> NoTable]

\* DWX_TICK_DATA_IO._get_symbol_as_dataframe_: status "None" for the bare
\* return, "error" for a raised exception, "table" with the frame returned.
\* a.reindex is the set of the columns of _reindex.
get_symbol_as_dataframe(listing, ext, a) ==
  LET located == find_symbol_files(listing, a.date, a.hour)
      bids == side_frame(located.bid, ext, "BID")
      asks == side_frame(located.ask, ext, "ASK")
      joined == dropna(ffill(merge_outer(asks, bids)))
      merged == [cols |-> joined.cols, rows |-> joined.rows,
                 ixkind |-> IF a.convert_epochs THEN "datetime" ELSE "raw"]
      out == IF a.reindex # {} THEN reindex_columns(merged, a.reindex) ELSE merged
  IN  IF ~located.found THEN ReturnsNone
      ELSE IF ~bids.ok \/ ~asks.ok THEN Raises
      ELSE IF ~bids.bound \/ ~asks.bound THEN Raises
      ELSE IF a.check_integrity /\ ~integrity_check(out) THEN Raises
      ELSE [status |-> "table", table |-> out]

\* ------------------------------------------------------- the tick store
\* what the directory of one symbol may hold for one side and hour: no file,
\* or a file with any of the hour's ticks (none included)
FileOptions(h) ==
  {[present |-> FALSE, ticks |-> {}]} \cup
  {[present |-> TRUE, ticks |-> S] : S \in SUBSET HourTicks(h)}

\* Path.glob's listing of the directory: by hour, or the other way round
Listing(a0, b0, a1, b1, reversed) ==
  LET f(side, h, o) == IF o.present THEN <<TickFile(side, h, o.ticks)>> ELSE <<>>
  IN  IF reversed
      THEN f("BID", "01", b1) \o f("ASK", "01", a1) \o f("BID", "00", b0) \o f("ASK", "00", a0)
      ELSE f("ASK", "00", a0) \o f("BID", "00", b0) \o f("ASK", "01", a1) \o f("BID", "01", b1)

\* the calls of _get_symbol_as_dataframe_ that are modelled: the one __main__
\* makes, the defaults with an hour filter, all columns on the raw index, and
\* the defaults with the integrity check
MainArgs ==
  [date |-> "2021-05-", hour |-> "", convert_epochs |-> TRUE, check_integrity |-> TRUE,
   reindex |-> {"ask_price", "bid_price", "spread"}]
MergeArgs ==
  { MainArgs,
    [date |-> "2021-05-21", hour |-> "01", convert_epochs |-> TRUE, check_integrity |-> FALSE,
     reindex |-> {"ask_price", "bid_price"}],
    [date |-> "", hour |-> "", convert_epochs |-> FALSE, check_integrity |-> FALSE,
     reindex |-> {}],
    [date |-> "2021-05-21", hour |-> "", convert_epochs |-> TRUE, check_integrity |-> TRUE,
     reindex |-> {"ask_price", "bid_price"}] }



MInit ==
  /\ \E a0 \in FileOptions("00"), b0 \in FileOptions("00"),
        a1 \in FileOptions("01"), b1 \in FileOptions("01"), reversed \in BOOLEAN :
       tick_dir = Listing(a0, b0, a1, b1, reversed)
  /\ extension \in {"csv", "gz"}
  /\ margs \in MergeArgs
  /\ mres = [status |-> "idle", table |-> NoTable]

\* one call of _get_symbol_as_dataframe_
GetSymbolAsDataframe ==
  /\ mres.status = "idle"
  /\ mres' = get_symbol_as_dataframe(tick_dir, extension, margs)
  /\ UNCHANGED <<tick_dir, extension, margs, avars, rvars, mainvars, wvars>>

MNext == GetSymbolAsDataframe

\* ===================================================================
\* BarResampler: _get_resampled_data
\* ===================================================================
\* round(x / 2) as numpy rounds: to the nearest, a half to the even neighbour
RoundHalf(n) ==
  IF n % 2 = 0 THEN n \div 2
  ELSE LET q == n \div 2 IN IF q % 2 = 0 THEN q ELSE q + 1

\* round((ask_price + bid_price) / 2, _symbol_digits), prices being counted
\* in units of the last of the _symbol_digits digits
mid_price(r) == RoundHalf(r.v["ask_price"] + r.v["bid_price"])

\* abs(np.diff(_df[['ask_price','bid_price']])) of one row
row_spread(r) ==
  LET d == r.v["bid_price"] - r.v["ask_price"] IN IF d < 0 THEN 0 - d ELSE d

\* the resampling rules modelled: width of a bucket in ticks of model time,
\* and the offset base=_daily_start gives the rules anchored to the day
Rules == {"min", "H", "24H"}
RuleWidth(rule) == CASE rule = "min" -> 2 [] rule = "H" -> 4 [] rule = "24H" -> 3
RuleOffset(rule) == IF rule \in {"B", "C", "D", "W", "24H"} THEN 2 ELSE 0

\* the start of the half-open bucket [start, start + width) that holds t
BucketStart(t, rule) ==
  ((t - RuleOffset(rule)) \div RuleWidth(rule)) * RuleWidth(rule) + RuleOffset(rule)

RECURSIVE Range(_, _, _)
\* from, from + step, ... up to and including to
Range(from, to, step) ==
  IF from > to THEN <<>> ELSE <<from>> \o Range(from + step, to, step)

\* the bucket labels of x.resample(rule): every bucket from the one of the
\* first tick to the one of the last, empty ones included
BucketLabels(rows, rule) ==
  IF rows = <<>> THEN <<>>
  ELSE LET lo == CHOOSE t \in IndexSet(rows) : \A u \in IndexSet(rows) : t <= u
           hi == CHOOSE t \in IndexSet(rows) : \A u \in IndexSet(rows) : t >= u
       IN  Range(BucketStart(lo, rule), BucketStart(hi, rule), RuleWidth(rule))

\* the rows in time order (a TimeGrouper always sorts its axis)
SortByIndex(rows) ==
  LET ts == SortedSeq(IndexSet(rows))
  IN  [i \in 1..Len(ts) |-> rows[CHOOSE k \in 1..Len(rows) : rows[k].ix = ts[i]]]

\* the rows of the bucket labelled b, in time order
BucketRows(rows, rule, b) ==
  LET sorted == SortByIndex(rows)
  IN  SelectRows(sorted, [i \in 1..Len(sorted) |-> BucketStart(sorted[i].ix, rule) = b])

RECURSIVE SeqSum(_)
SeqSum(q) == IF q = <<>> THEN 0 ELSE q[1] + SeqSum(Tail(q))
SeqMax(q) == CHOOSE x \in {q[i] : i \in 1..Len(q)} : \A i \in 1..Len(q) : x >= q[i]
SeqMin(q) == CHOOSE x \in {q[i] : i \in 1..Len(q)} : \A i \in 1..Len(q) : x <= q[i]

\* _resampled.ohlc(): one row per bucket, missing for an empty bucket
resample_ohlc(rows, rule) ==
  LET labels == BucketLabels(rows, rule)
  IN  [cols |-> {"open", "high", "low", "close"},
       rows |-> [i \in 1..Len(labels) |->
         LET br == BucketRows(rows, rule, labels[i])
             mids == [k \in 1..Len(br) |-> mid_price(br[k])]
         IN  [ix |-> labels[i],
              v  |-> IF br = <<>>
                     THEN [open |-> NaN, high |-> NaN, low |-> NaN, close |-> NaN]
                     ELSE [open |-> mids[1], high |-> SeqMax(mids),
                           low |-> SeqMin(mids), close |-> mids[Len(mids)]]]]]

\* _resampled.count().rename('volume'): the number of ticks of each bucket
resample_count(rows, rule) ==
  LET labels == BucketLabels(rows, rule)
  IN  [cols |-> {"volume"},
       rows |-> [i \in 1..Len(labels) |->
         [ix |-> labels[i],
          v  |-> [volume |-> Len(BucketRows(rows, rule, labels[i]))]]]]

\* _resampling_fn(_df.spread).mean(): the mean spread of each bucket, cut to
\* the price unit; missing for an empty bucket
resample_spread_mean(rows, rule) ==
  LET labels == BucketLabels(rows, rule)
  IN  [cols |-> {"spread"},
       rows |-> [i \in 1..Len(labels) |->
         LET br == BucketRows(rows, rule, labels[i])
         IN  [ix |-> labels[i],
              v  |-> [spread |-> IF br = <<>> THEN NaN
                                 ELSE SeqSum([k \in 1..Len(br) |-> row_spread(br[k])])
                                      \div Len(br)]]]]

\* the _na_handling callables of __main__: None, lambda x: x.dropna(),
\* lambda x: x.fillna(method='ffill').dropna()
Policies == {"none", "dropna", "ffill_dropna"}
na_handling(policy, df) ==
  CASE policy = "none" -> df
    [] policy = "dropna" -> dropna(df)
    [] policy = "ffill_dropna" -> dropna(ffill(df))

\* _df['mid_price'] = round((_df.ask_price + _df.bid_price) / 2, _symbol_digits)
with_mid_price(df) ==
  [cols |-> df.cols \cup {"mid_price"},
   rows |-> [i \in 1..Len(df.rows) |->
              [ix |-> df.rows[i].ix,
               v  |-> [c \in df.cols \cup {"mid_price"} |->
                        IF c = "mid_price" THEN mid_price(df.rows[i]) ELSE df.rows[i].v[c]]]]]

\* DWX_TICK_DATA_IO._get_resampled_data(_df, _precision, _na_handling,
\* _calc_spread): ok = FALSE models the TypeError resample raises on an index
\* that is not a DatetimeIndex.  Without _calc_spread the frame merged with the
\* volume is the tick frame itself (with its mid_price column), not the OHLC.
get_resampled_data(df, precision, policy, calc_spread) ==
  IF precision = "tick" THEN [ok |-> TRUE, df |-> [cols |-> df.cols, rows |-> df.rows]]
  ELSE IF df.ixkind # "datetime" THEN [ok |-> FALSE, df |-> [cols |-> {}, rows |-> <<>>]]
  ELSE
    LET withmid == with_mid_price(df)
        ohlc == resample_ohlc(withmid.rows, precision)
        volume == resample_count(withmid.rows, precision)
        spread == resample_spread_mean(withmid.rows, precision)
        bars == IF calc_spread THEN merge_outer(ohlc, spread)
                ELSE [cols |-> withmid.cols, rows |-> withmid.rows]
    IN  [ok |-> TRUE, df |-> na_handling(policy, merge_outer(bars, volume))]

\* the sum of a frame's volume column (missing values skipped)
SumVolume(df) ==
  SeqSum([i \in 1..Len(df.rows) |->
           IF df.rows[i].v["volume"] = NaN THEN 0 ELSE df.rows[i].v["volume"]])

\* ------------------------------------------------- the resampler's inputs
\* tick timestamps of the tables given to the resampler are 0..MaxBarTick
MaxBarTick == 5

\* ask price of the tick at t along a rising, a falling and a zigzag path;
\* the bid is below the ask by a spread that varies
AskPath(path, t) ==
  CASE path = "rise" -> 104 + 2 * t
    [] path = "fall" -> 130 - 3 * t
    [] path = "zigzag" -> 110 + (IF t % 2 = 0 THEN 5 ELSE 0)
BidPath(path, t) == AskPath(path, t) - 1 - (t % 3)
Paths == {"rise", "fall", "zigzag"}

\* a merged tick table as _get_symbol_as_dataframe_ returns it (complete
\* rows, DatetimeIndex, columns ask_price and bid_price) with ticks at S
TickTable(S, path) ==
  LET ts == SortedSeq(S)
  IN  [cols |-> {"ask_price", "bid_price"},
       ixkind |-> "datetime",
       rows |-> [i \in 1..Len(ts) |->
                  [ix |-> ts[i],
                   v  |-> [ask_price |-> AskPath(path, ts[i]),
                           bid_price |-> BidPath(path, ts[i])]]]]



RIdle == [status |-> "idle", df |-> [cols |-> {}, rows |-> <<>>]]

RInit ==
  /\ \E S \in SUBSET (0..MaxBarTick), path \in Paths, rule \in Rules,
        policy \in Policies, cs \in BOOLEAN :
       rin = [table |-> TickTable(S, path), precision |-> rule,
              policy |-> policy, calc_spread |-> cs]
  /\ rout = RIdle

\* one call of _get_resampled_data
Resample ==
  /\ rout.status = "idle"
  /\ LET r == get_resampled_data(rin.table, rin.precision, rin.policy, rin.calc_spread)
     IN  rout' = [status |-> IF r.ok THEN "ok" ELSE "error", df |-> r.df]
  /\ UNCHANGED <<rin, avars, mvars, mainvars, wvars>>

RNext == Resample

\* ===================================================================
\* __main__: the batch over the tickers
\* ===================================================================
\* config.G8_TICKERS, two of them
Assets == <<"EURUSD", "GBPUSD">>
\* '2020-5-20', the start of the rows kept; it is before every tick
StartDate == 0

\* _df[_df.index >= '2020-5-20']
rows_from(df, start) ==
  [df EXCEPT !.rows = SelectRows(df.rows, [i \in 1..Len(df.rows) |-> df.rows[i].ix >= start])]

\* the frame of bars as append_or_create_csv gets it: a DatetimeIndex,
\* tz-aware (the index text of the .csv tick files carries the offset)
ToBarFrame(df, utc) ==
  [cols |-> df.cols,
   rows |-> [i \in 1..Len(df.rows) |-> [ix |-> TsEntry(df.rows[i].ix, utc), v |-> df.rows[i].v]]]

\* write_resampled_data(_df, precision, path, calc_spread, na_handling): the
\* file at path after the call; ok = FALSE when resampling raised
write_resampled_data(df, precision, f, calc_spread, policy) ==
  LET r == get_resampled_data(df, precision, policy, calc_spread)
  IN  IF r.ok THEN [ok |-> TRUE, file |-> append_or_create_csv(ToBarFrame(r.df, TRUE), f)]
      ELSE [ok |-> FALSE, file |-> f]

\* the files of a ticker's directory that hold whole hours
WholeHour(h) ==
  {[present |-> FALSE, ticks |-> {}], [present |-> TRUE, ticks |-> HourTicks(h)]}



NoResult == [status |-> "idle", table |-> NoTable]

\* the directories a ticker may have
MainDirs ==
  {Listing(a0, b0, a1, b1, reversed) :
     a0 \in WholeHour("00"), b0 \in WholeHour("00"),
     a1 \in WholeHour("01"), b1 \in WholeHour("01"), reversed \in BOOLEAN}

MainInit ==
  /\ \E d1 \in MainDirs, d2 \in MainDirs : dirs = <<d1, d2>>
  /\ pc = "get"
  /\ ai = 1
  /\ main_df = NoResult
  /\ store = [i \in 1..Len(Assets) |-> [minute |-> NoFile, hour |-> NoFile]]

\* _df = _io._get_symbol_as_dataframe_(...)
MainGet ==
  /\ pc = "get"
  /\ main_df' = get_symbol_as_dataframe(dirs[ai], "csv", MainArgs)
  /\ pc' = IF main_df'.status = "error" THEN "raised" ELSE "filter"
  /\ UNCHANGED <<dirs, ai, store, avars, mvars, rvars, wvars>>

\* _df = _df[_df.index >= '2020-5-20']: subscripting None raises TypeError
MainFilter ==
  /\ pc = "filter"
  /\ IF main_df.status = "None"
     THEN pc' = "raised" /\ UNCHANGED main_df
     ELSE /\ main_df' = [main_df EXCEPT !.table = rows_from(main_df.table, StartDate)]
          /\ pc' = "check"
  /\ UNCHANGED <<dirs, ai, store, avars, mvars, rvars, wvars>>

NextUnit == IF ai = Len(Assets) THEN "done" ELSE "get"

\* if _df is None: continue
MainCheck ==
  /\ pc = "check"
  /\ IF main_df.status = "None"
     THEN pc' = NextUnit /\ ai' = ai + 1
     ELSE pc' = "write_min" /\ UNCHANGED ai
  /\ UNCHANGED <<dirs, main_df, store, avars, mvars, rvars, wvars>>

\* write_resampled_data(_df, precision='min', ...)
MainWriteMinute ==
  /\ pc = "write_min"
  /\ LET w == write_resampled_data(main_df.table, "min", store[ai].minute, TRUE, "dropna")
     IN  /\ store' = [store EXCEPT ![ai].minute = w.file]
         /\ pc' = IF w.ok THEN "write_hour" ELSE "raised"
  /\ UNCHANGED <<dirs, ai, main_df, avars, mvars, rvars, wvars>>

\* write_resampled_data(_df, precision='H', ...), the end of the loop body
MainWriteHour ==
  /\ pc = "write_hour"
  /\ LET w == write_resampled_data(main_df.table, "H", store[ai].hour, TRUE, "dropna")
     IN  /\ store' = [store EXCEPT ![ai].hour = w.file]
         /\ pc' = IF w.ok THEN NextUnit ELSE "raised"
         /\ ai' = IF w.ok THEN ai + 1 ELSE ai
  /\ UNCHANGED <<dirs, main_df, avars, mvars, rvars, wvars>>

MainNext == MainGet \/ MainFilter \/ MainCheck \/ MainWriteMinute \/ MainWriteHour

\* ===================================================================
\* two calls of append_or_create_csv on one file, run by two workers
\* ===================================================================
\* the two callers that write to the same file
Writers == {1, 2}

\* the old data is left out of what is written
combined_data_new_only(old, df) == drop_duplicated(to_datetime_utc(df))

\* combined_data of lines 232-234: old_data and _df concatenated, the index
\* made UTC Timestamps, the later duplicates dropped
combined_data(old, df) == drop_duplicated(to_datetime_utc(concat_inner(old, df)))

\* the rows known as committed once the content f has been written: a
\* timestamp keeps the row first written for it
CommitRows(known, f) ==
  [t \in DOMAIN known \cup SeriesTs(f) |->
    IF t \in DOMAIN known THEN known[t] ELSE RowAt(f, t)]

\* the file before the calls: absent, or a series written earlier
ExistingFiles ==
  {NoFile} \cup {to_csv(BarFrame(S, "gap", BarColsSpread, TRUE)) : S \in SUBSET Timestamps}

\* the frame a writer is given: writer 1 brings bars of version "a", writer 2
\* bars of version "b", so that rows of the two at one timestamp differ
WriterFrame(w, S, cols) ==
  BarFrame(S, IF w = 1 THEN "a" ELSE "b", cols, TRUE)

WriterFrames(w) == {WriterFrame(w, S, cols) : S \in SUBSET Timestamps, cols \in ColSets}

WInit ==
  /\ file \in ExistingFiles
  /\ prev = file
  /\ committed = CommitRows(<<>>, file)
  /\ indexTz = TRUE /\ last = EmptyFrame /\ lastOp = "none" /\ calls = 0
  /\ wpc = [w \in Writers |-> "exists"]
  /\ wdf \in [Writers -> WriterFrames(1) \cup WriterFrames(2)]
  /\ \A w \in Writers : wdf[w] \in WriterFrames(w)
  /\ old_data = [w \in Writers |-> EmptyFrame]
  /\ overlap = FALSE

\* whether the call of writer w is between its first and its last step
UnderWay(w) == wpc[w] \in {"read", "write", "create"}

\* line 228: os.path.exists(csv_path_name), the first step of a call
WExists(w) ==
  /\ wpc[w] = "exists"
  /\ wpc' = [wpc EXCEPT ![w] = IF file.exists THEN "read" ELSE "create"]
  /\ overlap' = (overlap \/ \E o \in Writers \ {w} : UnderWay(o))
  /\ UNCHANGED <<wdf, old_data, avars, mvars, rvars, mainvars>>

\* line 230: old_data = pd.read_csv(csv_path_name, index_col="timestamp")
WRead(w) ==
  /\ wpc[w] = "read"
  /\ old_data' = [old_data EXCEPT ![w] = read_csv(file)]
  /\ wpc' = [wpc EXCEPT ![w] = "write"]
  /\ UNCHANGED <<wdf, overlap, avars, mvars, rvars, mainvars>>

\* lines 232-236: combined_data is built from the old_data read earlier and
\* written over the file
WWriteCombined(w) ==
  /\ wpc[w] = "write"
  /\ file' = to_csv(combined_data(old_data[w], wdf[w]))
  /\ committed' = CommitRows(committed, file')
  /\ wpc' = [wpc EXCEPT ![w] = "done"]
  /\ UNCHANGED <<wdf, old_data, overlap, indexTz, prev, last, lastOp, calls,
                 mvars, rvars, mainvars>>

\* line 239: _df.to_csv(csv_path_name) of the branch taken when the file
\* did not exist at line 228
WWriteNew(w) ==
  /\ wpc[w] = "create"
  /\ file' = to_csv(wdf[w])
  /\ committed' = CommitRows(committed, file')
  /\ wpc' = [wpc EXCEPT ![w] = "done"]
  /\ UNCHANGED <<wdf, old_data, overlap, indexTz, prev, last, lastOp, calls,
                 mvars, rvars, mainvars>>

WNext == \E w \in Writers : WExists(w) \/ WRead(w) \/ WWriteCombined(w) \/ WWriteNew(w)

\* ===================================================================
\* specifications: each runs one part, the state of the others at rest
\* ===================================================================

ARest ==
  /\ indexTz = TRUE /\ file = NoFile /\ prev = NoFile /\ last = EmptyFrame
  /\ lastOp = "none" /\ committed = <<>> /\ calls = 0
MRest ==
  /\ tick_dir = <<>> /\ extension = "csv" /\ margs = MainArgs
  /\ mres = [status |-> "idle", table |-> NoTable]
RRest ==
  /\ rin = [table |-> TickTable({}, "rise"), precision |-> "tick",
            policy |-> "none", calc_spread |-> FALSE]
  /\ rout = RIdle
MainRest ==
  /\ dirs = <<>> /\ pc = "done" /\ ai = 1 /\ main_df = NoResult /\ store = <<>>
WRest ==
  /\ wpc = [w \in Writers |-> "done"] /\ wdf = [w \in Writers |-> EmptyFrame]
  /\ old_data = [w \in Writers |-> EmptyFrame] /\ overlap = FALSE

AppendInit == AInit /\ MRest /\ RRest /\ MainRest /\ WRest
AppendNext == ANext
SpecAppend == AppendInit /\ [][AppendNext]_vars

MergeInit == MInit /\ ARest /\ RRest /\ MainRest /\ WRest
MergeNext == MNext
SpecMerge == MergeInit /\ [][MergeNext]_vars

ResampleInit == RInit /\ ARest /\ MRest /\ MainRest /\ WRest
ResampleNext == RNext
SpecResample == ResampleInit /\ [][ResampleNext]_vars

BatchInit == MainInit /\ ARest /\ MRest /\ RRest /\ WRest
BatchNext == MainNext
SpecMain == BatchInit /\ [][BatchNext]_vars

WritersInit == WInit /\ MRest /\ RRest /\ MainRest
WritersNext == WNext
SpecWriters == WritersInit /\ [][WritersNext]_vars

\* ------------------------------------------------- claims on the appender
FrameTs(df) == {df.rows[i].ix.t : i \in 1..Len(df.rows)}
IsAscending(f) ==
  \A i \in 1..Len(f.rows), j \in 1..Len(f.rows) : i < j => f.rows[i].ts.t < f.rows[j].ts.t

\* C1: starting from no file, a call with a frame B followed by a second call
\* with the same B leaves the persisted series (timestamps, row values,
\* columns, row order) as it was after the first call.  The second call is
\* call number 2 and its frame is the one that created the file.
C1_IdempotentAppend ==
  (calls = 2 /\ lastOp = "append" /\ prev = to_csv(last)) => Series(file) = Series(prev)

C1_Witness ==
  /\ calls = 2 /\ lastOp = "append" /\ prev = to_csv(last)
  /\ Len(last.rows) >= 2
  /\ Series(file) = Series(prev)

\* C2: a timestamp present in the existing series and in the new bars keeps
\* the existing row (on every column the file has), and after any sequence of
\* calls each row of the file is the one first committed for its timestamp.
C2_AppendPrecedence ==
  /\ lastOp = "append" =>
       \A i \in 1..Len(file.rows) :
         LET t == file.rows[i].ts.t
         IN  t \in SeriesTs(prev) \cap FrameTs(last) =>
               \A c \in file.cols : Series(file).rows[i].v[c] = RowAt(prev, t)[c]
  /\ \A i \in 1..Len(file.rows) :
       \A c \in file.cols : Series(file).rows[i].v[c] = committed[file.rows[i].ts.t][c]

C2_Witness ==
  /\ lastOp = "append"
  /\ prev.cols = last.cols
  /\ \E i \in 1..Len(file.rows), k \in 1..Len(last.rows) :
       /\ file.rows[i].ts.t = last.rows[k].ix.t
       /\ file.rows[i].ts.t \in SeriesTs(prev)
       /\ last.rows[k].v # RowAt(prev, file.rows[i].ts.t)
       /\ Series(file).rows[i].v = RowAt(prev, file.rows[i].ts.t)

\* C3: after every call the persisted series has strictly unique timestamps
\* and its rows are in ascending timestamp order.
C3_UniqueAscending == file.exists => IsAscending(file)

\* C4: after a series S has been written, a call with a frame of zero rows
\* (of the same columns) leaves the persisted series equal to S.
C4_EmptyAppendRoundTrip ==
  (lastOp = "append" /\ last.rows = <<>> /\ last.cols = prev.cols)
    => Series(file) = Series(prev)

C4_Witness ==
  /\ lastOp = "append" /\ last.rows = <<>> /\ last.cols = prev.cols
  /\ Len(prev.rows) >= 2
  /\ Series(file) = Series(prev)

\* C5: when the existing series and the new bars have different column sets
\* the call fails and the persisted file is left as it was.
C5_SchemaMismatchRejected ==
  (lastOp = "append" /\ last.cols # prev.cols) => file = prev

\* --------------------------------------------------- claims on the batch
\* C6: a unit for which the locator finds no files is skipped: no exception
\* is raised, nothing is written for it, and the loop goes on.
C6_NotFoundIsSkipped == main_df.status = "None" => pc # "raised"

\* -------------------------------------------------- claims on the merger
Located == find_symbol_files(tick_dir, margs.date, margs.hour)
\* the records of a side, over all the files located for it
SideRecords(files) == UNION {{files[i].lines[k] : k \in 1..Len(files[i].lines)} : i \in 1..Len(files)}
AskRecords == SideRecords(Located.ask)
BidRecords == SideRecords(Located.bid)
RecordTs(recs) == {r.t : r \in recs}
MinOf(S) == CHOOSE x \in S : \A y \in S : x <= y
\* the record of recs in force at t: the one at t, or else the latest before t
InForce(recs, t) ==
  CHOOSE r \in recs : r.t <= t /\ \A q \in recs : q.t <= t => q.t <= r.t

\* C7: when files are located and a side has zero records after
\* concatenation (no file of the side, or files without data rows), the merge
\* fails with an error and returns no table.
C7_EmptySideFails ==
  (mres.status # "idle" /\ Located.found /\ (AskRecords = {} \/ BidRecords = {}))
    => mres.status = "error"

\* C8: every row of the table the merge returns has a non-missing ask_price
\* and a non-missing bid_price.
C8_MergedComplete ==
  mres.status = "table" =>
    \A i \in 1..Len(mres.table.rows) :
      /\ {"ask_price", "bid_price"} \subseteq mres.table.cols
      /\ mres.table.rows[i].v["ask_price"] # NaN
      /\ mres.table.rows[i].v["bid_price"] # NaN

\* a table in which a leading timestamp was dropped and a later row carries a
\* forward-filled ask
C8_Witness ==
  /\ mres.status = "table"
  /\ Len(mres.table.rows) >= 2
  /\ \E t \in RecordTs(AskRecords) \cup RecordTs(BidRecords) : t \notin IndexSet(mres.table.rows)
  /\ \E i \in 1..Len(mres.table.rows) : mres.table.rows[i].ix \notin RecordTs(AskRecords)
  /\ C8_MergedComplete

\* C9: each row of the merged table carries, for each side, the side's record
\* at the row's timestamp or else the side's latest earlier record; the
\* timestamps of the outer join that are missing from the table are exactly
\* those before the first record of a side; also over several hour files.
C9_ForwardFill ==
  (mres.status = "table" /\ AskRecords # {} /\ BidRecords # {}) =>
    LET rows == mres.table.rows
        cols == mres.table.cols
        first == Max(MinOf(RecordTs(AskRecords)), MinOf(RecordTs(BidRecords)))
        agrees(r, c, x) == c \in cols => r.v[c] = x
    IN  /\ Len(rows) = Cardinality(IndexSet(rows))
        /\ IndexSet(rows) = {t \in RecordTs(AskRecords) \cup RecordTs(BidRecords) : t >= first}
        /\ \A i \in 1..Len(rows) :
             LET a == InForce(AskRecords, rows[i].ix)
                 b == InForce(BidRecords, rows[i].ix)
             IN  /\ agrees(rows[i], "ask_price", a.price)
                 /\ agrees(rows[i], "ask_size", a.size)
                 /\ agrees(rows[i], "bid_price", b.price)
                 /\ agrees(rows[i], "bid_size", b.size)

\* the files of both hours are listed latest first, every column is kept, a
\* leading timestamp is dropped and a row of the second hour is forward-filled
C9_Witness ==
  /\ mres.status = "table"
  /\ mres.table.cols = MergeCols
  /\ Len(Located.ask) = 2 /\ Located.ask[1].hour = "01"
  /\ Len(Located.bid) = 2
  /\ \E t \in RecordTs(AskRecords) \cup RecordTs(BidRecords) : t \notin IndexSet(mres.table.rows)
  /\ \E i \in 1..Len(mres.table.rows) :
       /\ mres.table.rows[i].ix \in HourTicks("01")
       /\ mres.table.rows[i].ix \notin RecordTs(BidRecords)
       /\ InForce(BidRecords, mres.table.rows[i].ix).t \in HourTicks("00")
  /\ C9_ForwardFill

\* ----------------------------------------------- claims on the resampler
\* C10: the volumes of the bars returned add up to the number of rows of the
\* input table, for every bucket width and missing-data policy.
C10_VolumeConservation ==
  (rout.status = "ok" /\ rin.precision # "tick")
    => SumVolume(rout.df) = Len(rin.table.rows)

\* the same with the spread computed (_calc_spread = True), the call __main__ makes
C10_VolumeConservationWithSpread ==
  (rout.status = "ok" /\ rin.precision # "tick" /\ rin.calc_spread)
    => SumVolume(rout.df) = Len(rin.table.rows)

\* a comparison of two float values: false when either is missing, as
\* comparisons with numpy.nan are
Geq(a, b) == a # NaN /\ b # NaN /\ a >= b

\* the input ticks that fall in the bucket labelled b, in time order
TicksOfBucket(b) == BucketRows(rin.table.rows, rin.precision, b)

\* the coverage inequalities of one returned row, and its open and close
\* against the first and the last tick of its bucket
BarCovers(r) ==
  /\ Geq(r.v["high"], r.v["low"])
  /\ Geq(r.v["high"], r.v["open"]) /\ Geq(r.v["high"], r.v["close"])
  /\ Geq(r.v["open"], r.v["low"]) /\ Geq(r.v["close"], r.v["low"])
  /\ LET br == TicksOfBucket(r.ix)
     IN  br # <<>> => /\ r.v["open"] = mid_price(br[1])
                      /\ r.v["close"] = mid_price(br[Len(br)])

\* C11: every bar _get_resampled_data returns, for every input table, bucket
\* width and missing-data policy (the identity policy that keeps empty
\* buckets included), has high >= low, high >= max(open, close) and
\* low <= min(open, close), open and close being the rounded mid-price of
\* the first and the last tick of the bucket.
C11_BucketCoverage ==
  (rout.status = "ok" /\ rin.precision # "tick") =>
    /\ OhlcCols \subseteq rout.df.cols
    /\ \A i \in 1..Len(rout.df.rows) : BarCovers(rout.df.rows[i])

\* the same for the bars that hold a price, with the spread computed
\* (_calc_spread = True): the rows of empty buckets that the identity policy
\* keeps have the four prices missing
C11_CoverageOfPricedBars ==
  (rout.status = "ok" /\ rin.precision # "tick" /\ rin.calc_spread) =>
    /\ OhlcCols \subseteq rout.df.cols
    /\ \A i \in 1..Len(rout.df.rows) :
         \/ BarCovers(rout.df.rows[i])
         \/ /\ TicksOfBucket(rout.df.rows[i].ix) = <<>>
            /\ rin.policy = "none"
            /\ \A c \in OhlcCols : rout.df.rows[i].v[c] = NaN

\* with the spread computed, a returned bar of an empty bucket that the
\* identity policy kept
C11_EmptyBucketBar ==
  /\ rout.status = "ok" /\ rin.precision # "tick" /\ rin.calc_spread
  /\ \E i \in 1..Len(rout.df.rows) : rout.df.rows[i].v["open"] = NaN

\* ------------------------------------------- claims on concurrent writers
AllDone == \A w \in Writers : wpc[w] = "done"

\* the timestamps the final file must hold: those of the existing series and
\* of both new bar sequences
Expected == SeriesTs(prev) \cup FrameTs(wdf[1]) \cup FrameTs(wdf[2])

\* a row once written to the file that the file no longer holds, or holds
\* with another value in a column the file has
DeletedRow ==
  \E t \in DOMAIN committed :
    \/ t \notin SeriesTs(file)
    \/ \E c \in file.cols : RowAt(file, t)[c] # committed[t][c]

\* the file lacks a timestamp of the existing series or of a new bar sequence
LostUpdate == \E t \in Expected : t \notin SeriesTs(file)

\* two serialized calls give what append_or_create_csv gives when called
\* twice, in one order or the other
SerialIsSequential ==
  (AllDone /\ ~overlap) =>
    file \in {append_or_create_csv(wdf[2], append_or_create_csv(wdf[1], prev)),
              append_or_create_csv(wdf[1], append_or_create_csv(wdf[2], prev))}

\* C12: two calls of append_or_create_csv on one file.  When both have ended
\* and the file lacks a timestamp of the existing series or of a new bar
\* sequence, the two calls overlapped: serialized calls, in either order,
\* leave every such timestamp in the file.  A row once written is deleted or
\* replaced only after the calls overlapped.  The lost update itself is
\* reachable (C12_LostUpdateReached).
C12_SerializedWritesKeepAll ==
  /\ (AllDone /\ LostUpdate) => overlap
  /\ DeletedRow => overlap

\* both calls read the existing series before either wrote; both have ended,
\* and the file lacks bars that one of the calls wrote to it
C12_LostUpdateReached ==
  /\ AllDone /\ overlap
  /\ prev.exists /\ prev.rows # <<>>
  /\ \E w \in Writers : \E t \in FrameTs(wdf[w]) :
       t \in DOMAIN committed /\ t \notin SeriesTs(file)
  /\ LostUpdate /\ DeletedRow

\* two serialized calls on an existing series, each bringing a timestamp the
\* series did not have
C12_SerializedRun ==
  /\ AllDone /\ ~overlap /\ prev.exists /\ prev.rows # <<>>
  /\ wdf[1].rows # <<>> /\ wdf[2].rows # <<>>
  /\ Expected = SeriesTs(file)

====
